---------------------------- MODULE Spec2Model ----------------------------
(***************************************************************************)
(* Model of estadisticas/base.py (EstadisticaBase) and inferencial.py      *)
(* (InferenciaEstadistica).                                                *)
(*                                                                         *)
(* Python values are records tagged by "kind":                             *)
(*   int   (field v)   an exact integer                                    *)
(*   float (field m)   a float, held in fixed point as thousandths         *)
(*   nan, inf          the float sentinels                                 *)
(*   str   (field s)   a string                                            *)
(*   list  (items)     a list, in order                                    *)
(*   tuple (lo, hi)    a pair                                              *)
(*   dict  (d)         a mapping from string keys to values                *)
(*   texto (partes)    a formatted string, as the sequence of its parts    *)
(*   f4    (dm)        a float formatted with :.4f, in ten-thousandths     *)
(* A call ends in an outcome: [ok |-> TRUE, val] for a return and          *)
(* [ok |-> FALSE, exc, msg] for a raised exception.                        *)
(***************************************************************************)
EXTENDS Integers, Sequences, FiniteSets

\* Longest sample fed to a constructor.
MaxLen == 4

\* Resolution of the fixed-point floats: one unit is 1/Milli.
Milli == 10 ^ 3

---------------------------------------------------------------------------
\* Values

PyInt(i) == [kind |-> "int", v |-> i]
PyFloat(m) == [kind |-> "float", m |-> m]
NaN == [kind |-> "nan"]
Inf == [kind |-> "inf"]
PyStr(s) == [kind |-> "str", s |-> s]
PyList(items) == [kind |-> "list", items |-> items]
PyTuple(lo, hi) == [kind |-> "tuple", lo |-> lo, hi |-> hi]
PyDict(d) == [kind |-> "dict", d |-> d]
Texto(partes) == [kind |-> "texto", partes |-> partes]

Ret(val) == [ok |-> TRUE, val |-> val]
Raise(exc, msg) == [ok |-> FALSE, exc |-> exc, msg |-> msg]

\* The observations a sample is drawn from: integers, the missing value
\* (float NaN), a categorical string and a string that spells a number.
Numeros == {PyInt(-1), PyInt(0), PyInt(1)}
Cadenas == {PyStr("a"), PyStr("7")}
Elementos == Numeros \cup {NaN} \cup Cadenas

Muestras == UNION {[1..k -> Elementos] : k \in 0..MaxLen}

\* float(x) of a string succeeds when the string spells a number.
EsCadenaNumerica(e) == e.kind = "str" /\ e.s = "7"

\* The float of an int or float value, in thousandths.
AMilli(x) == IF x.kind = "int" THEN x.v * Milli ELSE x.m

RECURSIVE RaizEntera(_)
\* floor(sqrt(k)) for k >= 0.
RaizEntera(k) ==
    IF k < 2 THEN k
    ELSE LET s == 2 * RaizEntera(k \div 4)
         IN IF (s + 1) * (s + 1) <= k THEN s + 1 ELSE s

\* np.sqrt / ** 0.5 of a non-negative float or of NaN.
Sqrt(x) == IF x.kind = "nan" THEN NaN ELSE PyFloat(RaizEntera(AMilli(x) * Milli))

---------------------------------------------------------------------------
\* EstadisticaBase (estadisticas/base.py)

\* pd.Series(datos): a sample of numbers and missing values becomes float64
\* (every int becomes the float of the same value); a sample holding a
\* string, a sample of ints alone and the empty sample keep their elements.
Series(items) ==
    IF /\ \A i \in 1..Len(items) : items[i].kind # "str"
       /\ \E i \in 1..Len(items) : items[i].kind = "nan"
    THEN [i \in 1..Len(items) |->
            IF items[i].kind = "int" THEN PyFloat(items[i].v * Milli) ELSE items[i]]
    ELSE items

\* What a caller can pass to a constructor: a list, a tuple, a pd.Series
\* (built by pandas, so normalised), None, or a value of another type
\* (items is empty for the falsy one: "", {}, 0).
TiposSecuencia == {"list", "tuple"}
OtrosTipos == {"str", "dict", "int"}
Entradas ==
    {[tipo |-> t, items |-> s] : t \in TiposSecuencia, s \in Muestras}
    \cup {[tipo |-> "Series", items |-> Series(s)] : s \in Muestras}
    \cup {[tipo |-> "None", items |-> << >>]}
    \cup {[tipo |-> t, items |-> s] : t \in OtrosTipos, s \in {<< >>, <<PyInt(1)>>}}

\* Dropna that drops nothing (len(self.datos) for the cached count).
SinDropna(d) == d

\* self.datos.dropna()
Dropna(d) == SelectSeq(d, LAMBDA e : e.kind # "nan")

\* NoPuedeEstarVacia without the isinstance test (datos is None or not datos).
NoPuedeEstarVaciaSinIsinstance(entrada) ==
    \/ entrada.tipo = "None"
    \/ entrada.items = << >>

\* The guard of the first raise of __init__:
\* datos is None or (isinstance(datos, (list, tuple)) and not datos)
NoPuedeEstarVacia(entrada) ==
    \/ entrada.tipo = "None"
    \/ entrada.tipo \in TiposSecuencia /\ entrada.items = << >>

\* EstadisticaBase.__init__: the exception raised, or the attributes set.
BaseInit(entrada) ==
    IF NoPuedeEstarVacia(entrada)
    THEN Raise("ValueError", <<"La lista de datos no puede estar vacía.">>)
    ELSE IF entrada.tipo \in TiposSecuencia
    THEN [ok |-> TRUE, datos |-> Series(entrada.items),
          n_observaciones |-> Len(Dropna(Series(entrada.items)))]
    ELSE IF entrada.tipo = "Series"
    THEN [ok |-> TRUE, datos |-> entrada.items,
          n_observaciones |-> Len(Dropna(entrada.items))]
    ELSE Raise("TypeError", <<"El formato de datos debe ser lista, tupla o pd.Series.">>)

\* EstadisticaBase.resumen
BaseResumen ==
    Raise("NotImplementedError",
          <<"Las clases hijas deben implementar el método resumen()">>)

contar_datos(d) == Len(d)

\* a + b of two numbers (int, float or NaN).
Mas(a, b) ==
    IF a.kind = "nan" \/ b.kind = "nan" THEN NaN
    ELSE IF a.kind = "int" /\ b.kind = "int" THEN PyInt(a.v + b.v)
    ELSE PyFloat(AMilli(a) + AMilli(b))

\* a - b of two numbers.
Menos(a, b) ==
    IF a.kind = "nan" \/ b.kind = "nan" THEN NaN
    ELSE IF a.kind = "int" /\ b.kind = "int" THEN PyInt(a.v - b.v)
    ELSE PyFloat(AMilli(a) - AMilli(b))

\* a / k, true division of a number by a positive int.
Entre(a, k) == IF a.kind = "nan" THEN NaN ELSE PyFloat(AMilli(a) \div k)

\* a * b of two floats.
Por(a, b) ==
    IF a.kind = "nan" \/ b.kind = "nan" THEN NaN
    ELSE PyFloat((AMilli(a) * AMilli(b)) \div Milli)

ErrorSuma == Raise("TypeError", <<"unsupported operand type(s) for +">>)

RECURSIVE SumaDesde(_, _, _)
\* sum(): the running total from element i on; adding a string to a number
\* raises TypeError.
SumaDesde(d, i, acc) ==
    IF i > Len(d) THEN Ret(acc)
    ELSE IF d[i].kind = "str" THEN ErrorSuma
    ELSE SumaDesde(d, i + 1, Mas(acc, d[i]))

suma(d) == SumaDesde(d, 1, PyInt(0))

media(d) ==
    LET n == contar_datos(d)
    IN IF n > 0
       THEN (LET s == suma(d) IN IF s.ok THEN Ret(Entre(s.val, n)) ELSE s)
       ELSE Ret(NaN)

\* The order of < on two values of one type: numbers by value, strings by
\* code point ("7" sorts before "a").
Menor(a, b) ==
    IF a.kind = "str" THEN a.s = "7" /\ b.s = "a" ELSE AMilli(a) < AMilli(b)

RECURSIVE Insertar(_, _)
Insertar(s, e) ==
    IF s = << >> THEN <<e>>
    ELSE IF Menor(e, Head(s)) THEN <<e>> \o s
    ELSE <<Head(s)>> \o Insertar(Tail(s), e)

RECURSIVE Sorted(_)
\* sorted() of a sample of comparable values: stable, ascending.
Sorted(d) == IF d = << >> THEN << >> ELSE Insertar(Sorted(SubSeq(d, 1, Len(d) - 1)), d[Len(d)])

Tiene(d, k) == \E i \in 1..Len(d) : d[i].kind = k

\* The middle of an ordered copy: the middle element, or the mean of the
\* two middle ones ((a + b) / 2 raises TypeError on strings).
Mitad(o) ==
    LET n == Len(o)
        mitad == n \div 2
    IN IF n % 2 = 0
       THEN IF o[mitad].kind = "str"
            THEN Raise("TypeError", <<"unsupported operand type(s) for /">>)
            ELSE Ret(Entre(Mas(o[mitad], o[mitad + 1]), 2))
       ELSE Ret(o[mitad + 1])

\* mediana: every result it can return. Every comparison with NaN is False,
\* so with a missing value the order sorted() leaves depends on the
\* comparisons the sort happens to make: any element (any two elements) may
\* end up in the middle.
mediana(d) ==
    LET n == contar_datos(d)
    IN IF n = 0 THEN {Ret(NaN)}
       ELSE IF Tiene(d, "str") /\ (\E i \in 1..n : d[i].kind # "str")
       THEN {Raise("TypeError", <<"'<' not supported">>)}
       ELSE IF ~Tiene(d, "nan") THEN {Mitad(Sorted(d))}
       ELSE IF n % 2 = 0
       THEN {Mitad([k \in 1..n |-> IF k = n \div 2 THEN d[i] ELSE d[j]]) :
                <<i, j>> \in {ij \in (1..n) \X (1..n) : ij[1] # ij[2]}}
       ELSE {Ret(d[i]) : i \in 1..n}

RECURSIVE Frecuencias(_, _, _)
\* The frequency dict of moda, as its items in insertion order. A NaN is
\* equal to nothing, itself included, so each one is a key of its own.
Frecuencias(d, i, acc) ==
    IF i > Len(d) THEN acc
    ELSE LET e == d[i]
             donde == {k \in 1..Len(acc) : e.kind # "nan" /\ acc[k].valor = e}
         IN IF donde = {}
            THEN Frecuencias(d, i + 1, Append(acc, [valor |-> e, freq |-> 1]))
            ELSE Frecuencias(d, i + 1,
                    [k \in 1..Len(acc) |->
                        IF k \in donde
                        THEN [valor |-> acc[k].valor, freq |-> acc[k].freq + 1]
                        ELSE acc[k]])

Max(S) == CHOOSE x \in S : \A y \in S : y <= x

\* UnaOVarias that drops the ties (modas[0] whatever len(modas) is).
SoloLaPrimera(modas) == modas[1]

\* modas[0] if len(modas) == 1 else modas
UnaOVarias(modas) == IF Len(modas) = 1 THEN modas[1] ELSE PyList(modas)

moda(d) ==
    LET n == contar_datos(d)
        frecuencias == Frecuencias(d, 1, << >>)
        max_frecuencia == Max({frecuencias[k].freq : k \in 1..Len(frecuencias)})
        items == SelectSeq(frecuencias, LAMBDA f : f.freq = max_frecuencia)
        modas == [k \in 1..Len(items) |-> items[k].valor]
    IN IF n = 0 THEN Ret(PyList(<< >>))
       ELSE IF max_frecuencia = 1 /\ n > 1 THEN Ret(PyList(<< >>))
       ELSE Ret(UnaOVarias(modas))

RECURSIVE SumaCuadrados(_, _, _, _)
\* sum((valor - media) ** 2 for valor in self.datos)
SumaCuadrados(d, la_media, i, acc) ==
    IF i > Len(d) THEN acc
    ELSE LET dif == Menos(d[i], la_media)
         IN SumaCuadrados(d, la_media, i + 1, Mas(acc, Por(dif, dif)))

varianza(d) ==
    LET n == contar_datos(d)
    IN IF n < 2 THEN Ret(NaN)
       ELSE LET la_media == media(d)
            IN IF ~la_media.ok THEN la_media
               ELSE Ret(Entre(SumaCuadrados(d, la_media.val, 1, PyInt(0)), n - 1))

desviacion_estandar(d) ==
    LET v == varianza(d) IN IF v.ok THEN Ret(Sqrt(v.val)) ELSE v

\* Module-level function rango(self): the truth value of a pd.Series is
\* ambiguous, so "not self.datos" raises for every sample.
rango(d) ==
    Raise("ValueError", <<"The truth value of a Series is ambiguous.">>)

\* Module-level function coeficiente_variacion(self).
coeficiente_variacion(d) ==
    LET la_media == media(d)
        desviacion == desviacion_estandar(d)
    IN IF ~la_media.ok THEN la_media
       ELSE IF ~desviacion.ok THEN desviacion
       ELSE IF la_media.val.kind = "nan" \/ desviacion.val.kind = "nan" THEN Ret(NaN)
       ELSE IF AMilli(la_media.val) = 0
       THEN (IF AMilli(desviacion.val) = 0 THEN Ret(PyFloat(0)) ELSE Ret(Inf))
       ELSE Ret(PyFloat(((AMilli(desviacion.val) * Milli) \div AMilli(la_media.val)) * 100))

\* The names defined in the body of each class (what an instance resolves)
\* and the names base.py defines at module level.
MetodosBase ==
    {"resumen", "obtener_datos", "obtener_n_observaciones", "contar_datos",
     "suma", "media", "mediana", "moda", "varianza", "desviacion_estandar"}
MetodosInferencia ==
    MetodosBase \cup {"intervalo_confianza_media", "intervalo_confianza_proporcion",
                      "__str__"}
FuncionesModulo == {"rango", "coeficiente_variacion"}
Metodos(c) == IF c = "InferenciaEstadistica" THEN MetodosInferencia ELSE MetodosBase

---------------------------------------------------------------------------
\* InferenciaEstadistica (inferencial.py)

\* MenosDeDos with the threshold off by one (self._n < 1).
MenosDeUno(n) == n < 1

\* The guard of the raise of InferenciaEstadistica.__init__: self._n < 2
MenosDeDos(n) == n < 2

InferenciaInit(entrada) ==
    LET base == BaseInit(entrada)
    IN IF ~base.ok THEN base
       ELSE IF MenosDeDos(base.n_observaciones)
       THEN Raise("ValueError",
                  <<"Se requieren al menos 2 observaciones para la inferencia.">>)
       ELSE base

\* The confidence levels a caller passes, in percent (0.90, 0.95, 0.99).
Niveles == {90, 95, 99}

\* stats.t.ppf(1 - (1 - nivel/100) / 2, gl), in thousandths.
TPpf(nivel, gl) ==
    LET t90 == <<6314, 2920, 2353, 2132, 2015, 1943>>
        t95 == <<12706, 4303, 3182, 2776, 2571, 2447>>
        t99 == <<63657, 9925, 5841, 4604, 4032, 3707>>
        t == IF nivel = 90 THEN t90 ELSE IF nivel = 95 THEN t95 ELSE t99
    IN PyFloat(t[IF gl > 6 THEN 6 ELSE gl])

\* stats.norm.ppf(1 - (1 - nivel/100) / 2), in thousandths.
NormPpf(nivel) ==
    PyFloat(IF nivel = 90 THEN 1645 ELSE IF nivel = 95 THEN 1960 ELSE 2576)

RECURSIVE AsTypeFloat(_, _)
\* self.obtener_datos().astype(float): float() of each element in turn; a
\* string that spells no number raises ValueError.
AsTypeFloat(d, i) ==
    IF i > Len(d) THEN Ret(NaN)
    ELSE IF d[i].kind = "str" /\ ~EsCadenaNumerica(d[i])
    THEN Raise("ValueError", <<"could not convert string to float: ", d[i].s>>)
    ELSE AsTypeFloat(d, i + 1)

\* a / b of two floats, b > 0.
Cociente(a, b) ==
    IF a.kind = "nan" \/ b.kind = "nan" THEN NaN
    ELSE PyFloat((AMilli(a) * Milli) \div AMilli(b))

\* The except clause of intervalo_confianza_media: a TypeError of media()
\* or desviacion_estandar() is raised again with the method's message.
ExceptMedia(r) ==
    IF r.exc = "TypeError"
    THEN Raise("TypeError",
               <<"Los datos deben ser numéricos para calcular el IC de la media.">>)
    ELSE r

intervalo_confianza_media(d, n, nivel_confianza) ==
    LET datos_cuantitativos == AsTypeFloat(d, 1)
        la_media == media(d)
        ds == desviacion_estandar(d)
    IN IF ~datos_cuantitativos.ok THEN datos_cuantitativos
       ELSE IF ~la_media.ok THEN ExceptMedia(la_media)
       ELSE IF ~ds.ok THEN ExceptMedia(ds)
       ELSE LET grados_libertad == n - 1
                t_critico == TPpf(nivel_confianza, grados_libertad)
                error_estandar == Cociente(ds.val, Sqrt(PyInt(n)))
                margen_error == Por(t_critico, error_estandar)
            IN Ret(PyTuple(Menos(la_media.val, margen_error),
                           Mas(la_media.val, margen_error)))

\* (datos_categoricos == valor_exito).sum(): ints and floats compare by
\* value, NaN equals nothing.
Igual(a, b) ==
    IF a.kind = "nan" \/ b.kind = "nan" THEN FALSE
    ELSE IF a.kind = "str" \/ b.kind = "str" THEN a = b
    ELSE AMilli(a) = AMilli(b)

ConteoExito(d, valor_exito) ==
    Cardinality({i \in 1..Len(d) : Igual(d[i], valor_exito)})

intervalo_confianza_proporcion(d, n, valor_exito, nivel_confianza) ==
    LET conteo_exito == ConteoExito(d, valor_exito)
        p_hat == Entre(PyInt(conteo_exito), n)
        q_hat == Menos(PyInt(1), p_hat)
        z_critico == NormPpf(nivel_confianza)
        error_estandar == Sqrt(Entre(Por(p_hat, q_hat), n))
        margen_error == Por(z_critico, error_estandar)
    IN Ret(PyTuple(Menos(p_hat, margen_error), Mas(p_hat, margen_error)))

\* ExceptResumen without the except Exception clause: anything that is not a
\* TypeError leaves resumen().
ExceptResumenSoloTypeError(res, r) ==
    IF r.exc = "TypeError"
    THEN Ret(PyDict([res EXCEPT !["IC Media"] =
                        PyStr("No aplicable (Datos no numéricos)")]))
    ELSE r

\* The handlers of resumen(): except TypeError, then except Exception. Both
\* store a string under "IC Media" and fall through to the return.
ExceptResumen(res, r) ==
    IF r.exc = "TypeError"
    THEN Ret(PyDict([res EXCEPT !["IC Media"] =
                        PyStr("No aplicable (Datos no numéricos)")]))
    ELSE Ret(PyDict([res EXCEPT !["IC Media"] =
                        Texto(<<PyStr("Error al calcular: ")>> \o
                              [k \in 1..Len(r.msg) |-> PyStr(r.msg[k])])]))

Ausente == [kind |-> "ausente"]
Claves == {"Conteo", "Media Muestral", "IC Media (95%)", "IC Media"}

\* A dict as a function on Claves; a key the dict does not hold maps to
\* Ausente.
Tiene_clave(res, k) == res[k] # Ausente

resumen(d, n) ==
    LET res == [k \in Claves |-> IF k = "Conteo" THEN PyInt(n) ELSE Ausente]
        ic_media == intervalo_confianza_media(d, n, 95)
    IN IF ic_media.ok
       THEN Ret(PyDict([res EXCEPT !["Media Muestral"] = media(d).val,
                                   !["IC Media (95%)"] = ic_media.val]))
       ELSE ExceptResumen(res, ic_media)

\* f"{x:.4f}": a float in ten-thousandths, or "nan".
Fmt4(x) == IF x.kind = "nan" THEN PyStr("nan") ELSE [kind |-> "f4", dm |-> AMilli(x) * 10]

InferenciaStr(d, n) ==
    LET r == resumen(d, n)
        cabecera == <<PyStr("Inferencia Estadística (n="), PyInt(n), PyStr(")")>>
        pie == <<PyStr("Utilice .intervalo_confianza_proporcion(valor) para IC de proporción.")>>
    IN IF ~r.ok THEN r
       ELSE IF Tiene_clave(r.val.d, "Media Muestral")
       THEN LET la_media == r.val.d["Media Muestral"]
                ic == r.val.d["IC Media (95%)"]
            IN Ret(Texto(cabecera
                         \o <<PyStr("Media Muestral: "), Fmt4(la_media)>>
                         \o <<PyStr("IC de la Media (95%): ("), Fmt4(ic.lo),
                              PyStr(", "), Fmt4(ic.hi), PyStr(")")>>
                         \o pie))
       ELSE Ret(Texto(cabecera \o <<r.val.d["IC Media"]>> \o pie))

---------------------------------------------------------------------------
\* The state: one instance, from the call of its constructor on.

VARIABLES
    pc,               \* "inicio", "listo" (constructed, no call in progress),
                      \* "retorno" (a call has just ended), "fallido"
    clase,            \* the class being instantiated
    datos,            \* self.datos
    n_observaciones,  \* self._n_observaciones
    n,                \* self._n (InferenciaEstadistica)
    datos_construccion, \* history: self.datos as __init__ left it
    llamada           \* the call that has just ended: its name, arguments, outcome

vars == <<pc, clase, datos, n_observaciones, n, datos_construccion, llamada>>
objeto == <<clase, datos, n_observaciones, n, datos_construccion>>

Ninguna == [op |-> "ninguna", args |-> << >>, res |-> Ret(NaN)]
None == [kind |-> "None"]

Init ==
    /\ pc = "inicio"
    /\ clase = "ninguna"
    /\ datos = << >>
    /\ n_observaciones = 0
    /\ n = 0
    /\ datos_construccion = << >>
    /\ llamada = Ninguna

\* EstadisticaBase(entrada) / InferenciaEstadistica(entrada)
Construir(c, entrada) ==
    LET r == IF c = "InferenciaEstadistica" THEN InferenciaInit(entrada)
             ELSE BaseInit(entrada)
    IN /\ pc = "inicio"
       /\ clase' = c
       /\ llamada' = [op |-> "__init__", args |-> <<entrada>>,
                      res |-> IF r.ok THEN Ret(None) ELSE r]
       /\ IF r.ok
          THEN /\ pc' = "retorno"
               /\ datos' = r.datos
               /\ datos_construccion' = r.datos
               /\ n_observaciones' = r.n_observaciones
               /\ n' = IF c = "InferenciaEstadistica" THEN r.n_observaciones ELSE n
          ELSE /\ pc' = "fallido"
               /\ UNCHANGED <<datos, datos_construccion, n_observaciones, n>>

ConstruirBase ==
    /\ pc = "inicio"
    /\ \E entrada \in Entradas : Construir("EstadisticaBase", entrada)
ConstruirInferencia ==
    /\ pc = "inicio"
    /\ \E entrada \in Entradas : Construir("InferenciaEstadistica", entrada)

\* A call of method nombre on the instance that ends with outcome res. No
\* method assigns an attribute.
Llamar(nombre, args, res) ==
    /\ pc = "listo"
    /\ nombre \in Metodos(clase)
    /\ llamada' = [op |-> nombre, args |-> args, res |-> res]
    /\ pc' = "retorno"
    /\ UNCHANGED objeto

LlamarObtenerDatos == Llamar("obtener_datos", << >>, Ret(PyList(datos)))
LlamarObtenerNObservaciones ==
    Llamar("obtener_n_observaciones", << >>, Ret(PyInt(n_observaciones)))
LlamarContarDatos == Llamar("contar_datos", << >>, Ret(PyInt(contar_datos(datos))))
LlamarSuma == Llamar("suma", << >>, suma(datos))
LlamarMedia == Llamar("media", << >>, media(datos))
LlamarMediana ==
    /\ pc = "listo"
    /\ \E r \in mediana(datos) : Llamar("mediana", << >>, r)
LlamarModa == Llamar("moda", << >>, moda(datos))
LlamarVarianza == Llamar("varianza", << >>, varianza(datos))
LlamarDesviacionEstandar == Llamar("desviacion_estandar", << >>, desviacion_estandar(datos))
LlamarResumen ==
    Llamar("resumen", << >>,
           IF clase = "InferenciaEstadistica" THEN resumen(datos, n) ELSE BaseResumen)
\* str(instance) of an InferenciaEstadistica (EstadisticaBase defines no
\* __str__ of its own).
LlamarStr == Llamar("__str__", << >>, InferenciaStr(datos, n))
LlamarIntervaloConfianzaMedia ==
    \E nivel \in Niveles :
        Llamar("intervalo_confianza_media", <<PyInt(nivel)>>,
               intervalo_confianza_media(datos, n, nivel))

\* The success values a caller asks the proportion of.
ValoresExito == {PyInt(0), PyInt(1), PyStr("a")}

LlamarIntervaloConfianzaProporcion ==
    \E valor_exito \in ValoresExito, nivel \in Niveles :
        Llamar("intervalo_confianza_proporcion", <<valor_exito, PyInt(nivel)>>,
               intervalo_confianza_proporcion(datos, n, valor_exito, nivel))

\* instance.nombre() for a name the class does not define: the attribute
\* lookup raises.
LlamarAtributoInexistente ==
    \E nombre \in (MetodosInferencia \cup FuncionesModulo) \ {"__str__"} :
        /\ pc = "listo"
        /\ nombre \notin Metodos(clase)
        /\ llamada' = [op |-> nombre, args |-> << >>,
                       res |-> Raise("AttributeError", <<"object has no attribute ", nombre>>)]
        /\ pc' = "retorno"
        /\ UNCHANGED objeto

\* base.rango(instance), base.coeficiente_variacion(instance): the
\* module-level functions, called with the instance as argument.
LlamarFuncionModulo ==
    \E nombre \in FuncionesModulo :
        /\ pc = "listo"
        /\ llamada' = [op |-> nombre, args |-> <<"self">>,
                       res |-> IF nombre = "rango" THEN rango(datos)
                               ELSE coeficiente_variacion(datos)]
        /\ pc' = "retorno"
        /\ UNCHANGED objeto

\* The caller takes the outcome and goes on to its next call.
Continuar ==
    /\ pc = "retorno"
    /\ pc' = "listo"
    /\ llamada' = Ninguna
    /\ UNCHANGED objeto

Next ==
    \/ ConstruirBase
    \/ ConstruirInferencia
    \/ LlamarObtenerDatos
    \/ LlamarObtenerNObservaciones
    \/ LlamarContarDatos
    \/ LlamarSuma
    \/ LlamarMedia
    \/ LlamarMediana
    \/ LlamarModa
    \/ LlamarVarianza
    \/ LlamarDesviacionEstandar
    \/ LlamarResumen
    \/ LlamarStr
    \/ LlamarIntervaloConfianzaMedia
    \/ LlamarIntervaloConfianzaProporcion
    \/ LlamarAtributoInexistente
    \/ LlamarFuncionModulo
    \/ Continuar

Spec == Init /\ [][Next]_vars

---------------------------------------------------------------------------
\* Properties

Construido == pc \in {"listo", "retorno"}
TiposAceptados == TiposSecuencia \cup {"Series"}
EntradaDe(l) == l.args[1]

\* The number of non-missing observations of a sample.
NoNulos(s) == Cardinality({i \in 1..Len(s) : s[i].kind # "nan"})

\* a <= b on floats: False when either is NaN.
MenorIgual(a, b) == a.kind # "nan" /\ b.kind # "nan" /\ AMilli(a) <= AMilli(b)

\* C1: every input with zero elements (list, tuple or pd.Series) makes the
\* constructor raise ValueError, so a constructed engine holds at least one
\* element.
C1_ConstruccionNoVacia ==
    /\ Construido => contar_datos(datos) >= 1
    /\ (llamada.op = "__init__" /\ EntradaDe(llamada).tipo \in TiposAceptados
            /\ EntradaDe(llamada).items = << >>)
        => (~llamada.res.ok /\ llamada.res.exc = "ValueError")

\* C2: the constructor of InferenciaEstadistica raises ValueError whenever
\* the sample has fewer than 2 non-missing observations, so a constructed
\* inference engine has obtener_n_observaciones() >= 2.
C2_InferenciaRequiereDos ==
    clase = "InferenciaEstadistica" =>
        /\ Construido => (n_observaciones >= 2 /\ n >= 2 /\ NoNulos(datos) >= 2)
        /\ (llamada.op = "__init__" /\ EntradaDe(llamada).tipo \in TiposAceptados
                /\ NoNulos(EntradaDe(llamada).items) < 2)
            => (~llamada.res.ok /\ llamada.res.exc = "ValueError")

C2_Witness ==
    /\ pc = "fallido"
    /\ clase = "InferenciaEstadistica"
    /\ EntradaDe(llamada) = [tipo |-> "list", items |-> <<PyInt(1), NaN, NaN>>]
    /\ llamada.res.exc = "ValueError"

\* C3: on a constructed InferenciaEstadistica, whatever the elements,
\* resumen() returns a mapping holding "Conteo" with the observation count
\* and __str__ returns a string; neither raises.
C3_ResumenNuncaLanza ==
    (clase = "InferenciaEstadistica" /\ pc = "retorno") =>
        /\ llamada.op = "resumen" =>
              /\ llamada.res.ok
              /\ llamada.res.val.kind = "dict"
              /\ llamada.res.val.d["Conteo"] = PyInt(NoNulos(datos))
        /\ llamada.op = "__str__" =>
              /\ llamada.res.ok
              /\ llamada.res.val.kind = "texto"

C3_Witness ==
    /\ pc = "retorno"
    /\ llamada.op = "__str__"
    /\ datos = <<PyStr("a"), NaN, PyStr("a")>>
    /\ llamada.res.ok

\* An element float() cannot read as a number.
NoNumerico(e) == e.kind = "str" /\ ~EsCadenaNumerica(e)

\* C4: intervalo_confianza_media on a sample holding an element that cannot
\* be interpreted as a number raises TypeError with the message 'Los datos
\* deben ser numéricos...', and no other kind of error.
C4_MediaNoNumericaTypeError ==
    (llamada.op = "intervalo_confianza_media" /\ Construido
        /\ \E i \in 1..Len(datos) : NoNumerico(datos[i]))
    => llamada.res =
          Raise("TypeError",
                <<"Los datos deben ser numéricos para calcular el IC de la media.">>)

\* C5: resumen() on a non-numeric sample has no "Media Muestral" entry and
\* its "IC Media" entry is "No aplicable (Datos no numéricos)", not the
\* generic "Error al calcular: ..." message.
C5_ResumenNoAplicable ==
    (clase = "InferenciaEstadistica" /\ llamada.op = "resumen"
        /\ \E i \in 1..Len(datos) : NoNumerico(datos[i]))
    => /\ llamada.res.ok
       /\ ~Tiene_clave(llamada.res.val.d, "Media Muestral")
       /\ llamada.res.val.d["IC Media"] = PyStr("No aplicable (Datos no numéricos)")

\* C6 as claimed: the constructor called with an input that is neither a
\* list/tuple nor a pd.Series (None, a string, a dict, an integer) raises
\* TypeError.
C6_TipoNoReconocidoTypeError ==
    (llamada.op = "__init__" /\ EntradaDe(llamada).tipo \notin TiposAceptados)
    => (~llamada.res.ok /\ llamada.res.exc = "TypeError")

\* C6, amended: the constructor called with an input that is neither a
\* list/tuple nor a pd.Series never succeeds; it raises TypeError, except
\* for None, which raises ValueError.
C6_TipoNoReconocido ==
    (llamada.op = "__init__" /\ EntradaDe(llamada).tipo \notin TiposAceptados)
    => /\ ~llamada.res.ok
       /\ pc = "fallido"
       /\ llamada.res.exc =
             (IF EntradaDe(llamada).tipo = "None" THEN "ValueError" ELSE "TypeError")

C6_Witness ==
    /\ pc = "fallido"
    /\ clase = "EstadisticaBase"
    /\ EntradaDe(llamada) = [tipo |-> "dict", items |-> << >>]
    /\ llamada.res.exc = "TypeError"

\* C7: every pair returned by intervalo_confianza_media or
\* intervalo_confianza_proporcion satisfies lower <= upper, also on samples
\* with missing values beside at least 2 non-missing observations.
C7_LimitesOrdenados ==
    (llamada.op \in {"intervalo_confianza_media", "intervalo_confianza_proporcion"}
        /\ Construido /\ llamada.res.ok)
    => MenorIgual(llamada.res.val.lo, llamada.res.val.hi)

\* The value the claim gives coeficiente_variacion on a numeric sample.
CvEsperado(d) ==
    LET la_media == media(d).val
        desviacion == desviacion_estandar(d).val
    IN IF la_media.kind = "nan" \/ desviacion.kind = "nan" THEN NaN
       ELSE IF AMilli(la_media) = 0 /\ AMilli(desviacion) = 0 THEN PyFloat(0)
       ELSE IF AMilli(la_media) = 0 THEN Inf
       ELSE PyFloat(((AMilli(desviacion) * Milli) \div AMilli(la_media)) * 100)

\* C8: coeficiente_variacion is callable on any constructed instance and
\* returns NaN, 0.0, +infinity or (stddev/mean)*100 by the case of the mean
\* and the standard deviation.
C8_CoeficienteVariacionExpuesto ==
    (pc = "retorno" /\ llamada.op = "coeficiente_variacion" /\ llamada.args = << >>
        /\ ~Tiene(datos, "str"))
    => llamada.res = Ret(CvEsperado(datos))

\* Two positions hold the same value: a NaN is the same as itself alone.
MismoValor(d, i, j) == i = j \/ (d[i].kind # "nan" /\ d[i] = d[j])
Frecuencia(d, i) == Cardinality({j \in 1..Len(d) : MismoValor(d, i, j)})
MaximaFrecuencia(d) == Max({Frecuencia(d, i) : i \in 1..Len(d)})
\* The first position of each value that attains the maximum frequency.
PosicionesModa(d) ==
    {i \in 1..Len(d) : /\ Frecuencia(d, i) = MaximaFrecuencia(d)
                       /\ \A j \in 1..(i - 1) : ~MismoValor(d, i, j)}
PySet(S) == [kind |-> "set", items |-> S]

C10_MuestraInalterada ==
    Construido =>
        /\ datos = datos_construccion
        /\ n_observaciones = NoNulos(datos)

C10_Witness ==
    /\ pc = "retorno"
    /\ llamada.op = "intervalo_confianza_media"
    /\ ~llamada.res.ok
    /\ Tiene(datos, "nan")
    /\ n_observaciones = 2
    /\ Len(datos) = 3

===========================================================================
